---- MODULE Spec2Model ----
(***************************************************************************)
(* Model of aq: the PM2.5 -> AQI breakpoint interpolation (src/aqi.rs) and *)
(* the sliding chart window driven by the event loop (src/main.rs).        *)
(*                                                                         *)
(* f32 values are modelled bit-exactly for finite normal numbers: a value  *)
(* is <<s, m, e>> and stands for (-1)^s * m * 2^e, with m = 0 (zero) or    *)
(* 2^23 <= m < 2^24.  Every arithmetic operator rounds to nearest, ties to *)
(* even, as IEEE-754 binary32 does.  All intermediate integers stay below  *)
(* 2^31.                                                                   *)
(***************************************************************************)
EXTENDS Integers, Sequences, FiniteSets, TLC

----------------------------------------------------------------------------
(* f32 arithmetic *)

RECURSIVE BitLen(_)
BitLen(n) == IF n = 0 THEN 0 ELSE 1 + BitLen(n \div 2)

FZero == <<0, 0, 0>>

\* Round the exact value (-1)^s * M * 2^e (0 <= M < 2^31) to the nearest f32.
FRound(s, M, e) ==
    IF M = 0 THEN FZero
    ELSE LET n == BitLen(M) IN
         IF n <= 24 THEN <<s, M * 2^(24 - n), e - (24 - n)>>
         ELSE LET sh   == n - 24
                  q    == M \div 2^sh
                  r    == M % 2^sh
                  half == 2^(sh - 1)
                  up   == r > half \/ (r = half /\ q % 2 = 1)
                  q2   == IF up THEN q + 1 ELSE q
              IN IF q2 = 2^24 THEN <<s, 2^23, e + sh + 1>>
                              ELSE <<s, q2, e + sh>>

\* `i as f32`
FromInt(i) == IF i < 0 THEN FRound(1, 0 - i, 0) ELSE FRound(0, i, 0)

FNeg(a) == IF a[2] = 0 THEN a ELSE <<1 - a[1], a[2], a[3]>>

\* M shifted right by d bits; any bit shifted out is kept as a sticky low bit.
ShiftRightJam(M, d) ==
    IF d >= 31 THEN (IF M # 0 THEN 1 ELSE 0)
    ELSE LET q == M \div 2^d
             r == M % 2^d
         IN IF r # 0 /\ q % 2 = 0 THEN q + 1 ELSE q

FAdd(a, b) ==
    IF a[2] = 0 THEN b
    ELSE IF b[2] = 0 THEN a
    ELSE LET big   == IF a[3] >= b[3] THEN a ELSE b
             small == IF a[3] >= b[3] THEN b ELSE a
             d     == big[3] - small[3]
             MB    == big[2] * 32
             MS    == ShiftRightJam(small[2] * 32, d)
             total == (IF big[1] = 1 THEN 0 - MB ELSE MB)
                      + (IF small[1] = 1 THEN 0 - MS ELSE MS)
         IN IF total < 0 THEN FRound(1, 0 - total, big[3] - 5)
                         ELSE FRound(0, total, big[3] - 5)

FSub(a, b) == FAdd(a, FNeg(b))

FMul(a, b) ==
    IF a[2] = 0 \/ b[2] = 0 THEN FZero
    ELSE LET a1  == a[2] \div 4096
             a0  == a[2] % 4096
             b1  == b[2] \div 4096
             b0  == b[2] % 4096
             mid == a1 * b0 + a0 * b1
             L   == a0 * b0 + (mid % 4096) * 4096
             H   == a1 * b1 + (mid \div 4096) + (L \div 2^24)
             Lo  == L % 2^24
             top == H * 64 + (Lo \div 2^18)
             M   == IF Lo % 2^18 # 0 /\ top % 2 = 0 THEN top + 1 ELSE top
         IN FRound((a[1] + b[1]) % 2, M, a[3] + b[3] + 18)

\* k further quotient bits of the long division by b: <<quotient, remainder>>
RECURSIVE DivStep(_, _, _, _)
DivStep(q, r, b, k) ==
    IF k = 0 THEN <<q, r>>
    ELSE IF 2 * r >= b THEN DivStep(2 * q + 1, 2 * r - b, b, k - 1)
                       ELSE DivStep(2 * q, 2 * r, b, k - 1)

\* b is never zero here: every table row has c_high > c_low.
FDiv(a, b) ==
    IF a[2] = 0 THEN FZero
    ELSE LET qr == DivStep(a[2] \div b[2], a[2] % b[2], b[2], 26)
             Q  == qr[1]
             M  == IF qr[2] # 0 /\ Q % 2 = 0 THEN Q + 1 ELSE Q
         IN FRound((a[1] + b[1]) % 2, M, a[3] - b[3] - 26)

FSgn(a) == IF a[2] = 0 THEN 0 ELSE IF a[1] = 1 THEN 0 - 1 ELSE 1

MagLess(a, b) == a[3] < b[3] \/ (a[3] = b[3] /\ a[2] < b[2])

\* a < b
FLess(a, b) ==
    IF FSgn(a) # FSgn(b) THEN FSgn(a) < FSgn(b)
    ELSE IF FSgn(a) = 0 THEN FALSE
    ELSE IF FSgn(a) = 1 THEN MagLess(a, b)
    ELSE MagLess(b, a)

\* a <= b
FLe(a, b) == ~FLess(b, a)

\* a == b
FEq(a, b) == ~FLess(a, b) /\ ~FLess(b, a)

\* The f32 nearest to the decimal n/d: what a decimal literal such as 12.1
\* denotes, and what dividing two exactly representable numbers yields.
Dec(n, d) == FDiv(FromInt(n), FromInt(d))

\* The k-th f32 above (k > 0) or below (k < 0) the positive f32 a, for k small
\* enough that the exponent does not change
UlpsAbove(a, k) == <<a[1], a[2] + k, a[3]>>

----------------------------------------------------------------------------
(* src/aqi.rs *)

\* the table with every row starting where the row before it ends
PM2_5_LOOKUP_TABLE_contiguous == <<
    <<Dec(0, 10),    Dec(120, 10),  0,   50,  "good">>,
    <<Dec(120, 10),  Dec(354, 10),  51,  100, "moderate">>,
    <<Dec(354, 10),  Dec(554, 10),  101, 150, "unhealthy for sensitive groups">>,
    <<Dec(554, 10),  Dec(1504, 10), 151, 200, "unhealthy">>,
    <<Dec(1504, 10), Dec(2504, 10), 201, 300, "very unhealthy">>,
    <<Dec(2504, 10), Dec(3504, 10), 301, 400, "hazardous">>,
    <<Dec(3504, 10), Dec(5004, 10), 401, 500, "hazardous">> >>

PM2_5_LOOKUP_TABLE == <<
    <<Dec(0, 10),    Dec(120, 10),  0,   50,  "good">>,
    <<Dec(121, 10),  Dec(354, 10),  51,  100, "moderate">>,
    <<Dec(355, 10),  Dec(554, 10),  101, 150, "unhealthy for sensitive groups">>,
    <<Dec(555, 10),  Dec(1504, 10), 151, 200, "unhealthy">>,
    <<Dec(1505, 10), Dec(2504, 10), 201, 300, "very unhealthy">>,
    <<Dec(2505, 10), Dec(3504, 10), 301, 400, "hazardous">>,
    <<Dec(3505, 10), Dec(5004, 10), 401, 500, "hazardous">> >>

NoRow == <<FZero, FZero, 0, 0, "">>

Some(r) == [some |-> TRUE, row |-> r]
None == [some |-> FALSE, row |-> NoRow]

\* The rows the scan's condition accepts
Matching(concentration) ==
    {i \in 1..Len(PM2_5_LOOKUP_TABLE) :
        /\ FLe(PM2_5_LOOKUP_TABLE[i][1], concentration)
        /\ FLe(concentration, PM2_5_LOOKUP_TABLE[i][2])}

\* find_lookup_values without the early return for values above the table
find_lookup_values_unclamped(concentration) ==
    LET hit == Matching(concentration) IN
    IF hit = {} THEN None
    ELSE Some(PM2_5_LOOKUP_TABLE[CHOOSE i \in hit : \A j \in hit : i <= j])

\* find_lookup_values answering with the first row whatever the value
find_lookup_values_first_row(concentration) == Some(PM2_5_LOOKUP_TABLE[1])

\* The value of `row` when the scan ends; the function then unwraps it.
find_lookup_values(concentration) ==
    IF FLess(Dec(5004, 10), concentration)
    THEN Some(PM2_5_LOOKUP_TABLE[Len(PM2_5_LOOKUP_TABLE)])
    ELSE LET hit == Matching(concentration) IN
         IF hit = {} THEN None
         ELSE Some(PM2_5_LOOKUP_TABLE[CHOOSE i \in hit : \A j \in hit : i <= j])

\* aqi measuring the concentration from the row's high bound
aqi_descending(lookup_values, concentration) ==
    LET c_low  == lookup_values[1]
        c_high == lookup_values[2]
        i_low  == lookup_values[3]
        i_high == lookup_values[4]
    IN FAdd(FMul(FDiv(FromInt(i_high - i_low), FSub(c_high, c_low)),
                 FSub(c_high, concentration)),
            FromInt(i_low))

\* aqi with the concentration not shifted by the row's low bound
aqi_unshifted(lookup_values, concentration) ==
    LET c_low  == lookup_values[1]
        c_high == lookup_values[2]
        i_low  == lookup_values[3]
        i_high == lookup_values[4]
    IN FAdd(FMul(FDiv(FromInt(i_high - i_low), FSub(c_high, c_low)),
                 concentration),
            FromInt(i_low))

aqi(lookup_values, concentration) ==
    LET c_low  == lookup_values[1]
        c_high == lookup_values[2]
        i_low  == lookup_values[3]
        i_high == lookup_values[4]
    IN FAdd(FMul(FDiv(FromInt(i_high - i_low), FSub(c_high, c_low)),
                 FSub(concentration, c_low)),
            FromInt(i_low))

Ok(v) == [kind |-> "Ok", val |-> v]
Panic == [kind |-> "Panic", val |-> FZero]

\* Ok(index), or Panic when row.unwrap() meets None.  The row is looked up
\* once and bound, as `let lookup_values = ...` does.
aqi_from_pm2_5(concentration) ==
    CHOOSE result \in
        {IF found.some THEN Ok(aqi(found.row, concentration)) ELSE Panic :
            found \in {find_lookup_values(concentration)}} : TRUE

----------------------------------------------------------------------------
(* Bounds and inputs *)

\* Tick events handled in one run of the loop
MaxTicks == 24
\* Largest sensor reading, in tenths, given to the calculator on its own
MaxRaw == 6000
\* How many f32 neighbours of each table bound the calculator is given
MaxUlps == 8
\* Largest power of two 2^(23+e) given to the calculator
MaxExp == 40

\* Readings the sensor delivers in a run, in tenths of a microgram; each one
\* lies in a table row or above the table.
Readings == <<0, 120, 355, 555, 121, 354, 554, 1504, 1505, 2504, 2505,
              3504, 3505, 5004, 5005, 6000, 77, 1000>>

\* Step by which a run walks through Readings
Strides == {1, 5, 7}

\* Readings no row covers
Unclassifiable == {Dec(1205, 100), FromInt(0 - 1), Dec(3545, 100)}

TableBounds ==
    {PM2_5_LOOKUP_TABLE[i][1] : i \in 1..Len(PM2_5_LOOKUP_TABLE)}
    \cup {PM2_5_LOOKUP_TABLE[i][2] : i \in 1..Len(PM2_5_LOOKUP_TABLE)}

\* Concentrations the calculator is run on by itself
CalcInputs ==
    {Dec(n, 10) : n \in (0 - 20)..MaxRaw}
    \cup {Dec(n, 100) : n \in 1190..1220}
    \cup {UlpsAbove(b, k) : b \in TableBounds \ {FZero}, k \in (0 - MaxUlps)..MaxUlps}
    \cup {<<0, 2^23, e>> : e \in 0..MaxExp}
    \cup Unclassifiable

----------------------------------------------------------------------------
(* src/main.rs *)

VARIABLES
    pm_2_5_data,    \* App.pm_2_5_data: sequence of <<x, y>>, x an integer-valued f64, y an f32 value widened to f64
    window,         \* App.window: <<lower, upper>>, integer-valued f64
    pc,             \* where the process is: "draw", "event", "handle", "done", "panicked"; "calc", "returned", "compared" for the calculator alone
    event,          \* what events.next() returned last: "Tick", "q", "other" ("none" before the first)
    panic_msg,      \* the payload of the panic that ended the process ("" while there is none)
    sensor,         \* position in Readings of the sensor's next reading
    stride,         \* step of this run's readings
    measurement,    \* update's local `measurement.pm2_5` / the calculator's argument
    lookup_values,  \* find_lookup_values' `row` when its scan ended
    last_aqi,       \* update's local `aqi`: the outcome of aqi_from_pm2_5
    prev_measurement, \* the calculator's argument in its previous call
    prev_aqi,       \* the outcome of the calculator's previous call
    ticks,          \* number of Tick events received
    pushed,         \* history: the concentrations whose points were pushed, in order
    frame           \* what the last terminal.draw showed: <<points, bounds>>

vars == <<pm_2_5_data, window, pc, event, panic_msg, sensor, stride,
          measurement, lookup_values, last_aqi, prev_measurement, prev_aqi,
          ticks, pushed, frame>>

\* What the calculator's locals hold
calc_vars == <<measurement, lookup_values, last_aqi, prev_measurement, prev_aqi>>

\* What the sensor will deliver
sensor_vars == <<sensor, stride>>

NoResult == [kind |-> "None", val |-> FZero]

\* Panic payloads: row.unwrap() on None, Vec::remove(0) on an empty vector,
\* get_measurement().expect(..) on Err
UnwrapNone == "called Option::unwrap() on a None value"
RemoveOutOfBounds == "removal index (is 0) should be < len (is 0)"
SensorFailed == "Failed to get measurement"

\* the fullness test always passing
IsFull_always(data) == TRUE

\* the fullness test one point late
IsFull_late(data) == Len(data) > 21

\* `self.pm_2_5_data.len() > 20`
IsFull(data) == Len(data) > 20

\* eviction forgotten
remove_nothing(data) == data

\* eviction taking the newest point instead of the oldest
remove_last(data) == SubSeq(data, 1, Len(data) - 1)

\* `Vec::remove(0)`, called on a vector that is not empty
remove_first(data) == Tail(data)

\* only the upper bound advanced
advance_upper_only(w) == <<w[1], w[2] + 1>>

\* both bounds advanced twice
advance_twice(w) == <<w[1] + 2, w[2] + 2>>

\* `self.window[0] += 1.0; self.window[1] += 1.0;`
advance(w) == <<w[1] + 1, w[2] + 1>>

\* x counted from one
fill_x_from_one(data) == Len(data) + 1

\* x of a point pushed while filling: `self.pm_2_5_data.len() as f64`
fill_x(data) == Len(data)

\* the new point put in front of the others
push_front(data, point) == <<point>> \o data

\* `Vec::push`
push(data, point) == Append(data, point)

\* App::new
App_new ==
    /\ pm_2_5_data = <<>>
    /\ window = <<0, 20>>

Init ==
    /\ App_new
    /\ pc = "draw"
    /\ event = "none"
    /\ panic_msg = ""
    /\ sensor \in 1..Len(Readings)
    /\ stride \in Strides
    /\ measurement = FZero
    /\ lookup_values = None
    /\ last_aqi = NoResult
    /\ prev_measurement = FZero
    /\ prev_aqi = NoResult
    /\ ticks = 0
    /\ pushed = <<>>
    /\ frame = <<<<>>, <<0, 20>>>>

\* a draw showing the buffer as it is halfway through a slide
Draw_torn ==
    /\ pc = "draw"
    /\ frame' = <<IF IsFull(pm_2_5_data) THEN remove_first(pm_2_5_data)
                                         ELSE pm_2_5_data, window>>
    /\ pc' = "event"
    /\ UNCHANGED <<pm_2_5_data, window, event, panic_msg, sensor_vars,
                   calc_vars, ticks, pushed>>

\* terminal.draw at the top of the loop
Draw ==
    /\ pc = "draw"
    /\ frame' = <<pm_2_5_data, window>>
    /\ pc' = "event"
    /\ UNCHANGED <<pm_2_5_data, window, event, panic_msg, sensor_vars,
                   calc_vars, ticks, pushed>>

\* events.next(): the next event of the channel is taken
events_next ==
    /\ pc = "event"
    /\ \/ /\ ticks < MaxTicks
          /\ event' = "Tick"
          /\ ticks' = ticks + 1
       \/ /\ event' \in {"q", "other"}
          /\ UNCHANGED ticks
    /\ pc' = "handle"
    /\ UNCHANGED <<pm_2_5_data, window, panic_msg, sensor_vars, calc_vars,
                   pushed, frame>>

\* update sliding the buffer before it asks for the index
update_slide_first(concentration) ==
    \E result \in {aqi_from_pm2_5(concentration)} :
    /\ measurement' = concentration
    /\ lookup_values' = find_lookup_values(concentration)
    /\ last_aqi' = result
    /\ IF result.kind = "Panic"
       THEN /\ pc' = "panicked"
            /\ panic_msg' = UnwrapNone
            /\ IF IsFull(pm_2_5_data)
               THEN /\ window' = advance(window)
                    /\ pm_2_5_data' = remove_first(pm_2_5_data)
               ELSE UNCHANGED <<pm_2_5_data, window>>
            /\ UNCHANGED pushed
       ELSE /\ IF IsFull(pm_2_5_data)
               THEN /\ window' = advance(window)
                    /\ pm_2_5_data' = push(remove_first(pm_2_5_data),
                                           <<window'[2], result.val>>)
               ELSE /\ pm_2_5_data' = push(pm_2_5_data,
                                           <<fill_x(pm_2_5_data), result.val>>)
                    /\ UNCHANGED window
            /\ pushed' = Append(pushed, concentration)
            /\ pc' = "draw"
            /\ UNCHANGED panic_msg

\* App::update once the sensor has delivered `concentration`.  `aqi as f64`
\* widens exactly, so the stored y is the f32 value itself.  remove(0)
\* panics on an empty vector.
update(concentration) ==
    \E result \in {aqi_from_pm2_5(concentration)} :
    /\ measurement' = concentration
    /\ lookup_values' = find_lookup_values(concentration)
    /\ last_aqi' = result
    /\ IF result.kind = "Panic"
       THEN /\ pc' = "panicked"
            /\ panic_msg' = UnwrapNone
            /\ UNCHANGED <<pm_2_5_data, window, pushed>>
       ELSE IF IsFull(pm_2_5_data) /\ pm_2_5_data = <<>>
       THEN /\ pc' = "panicked"
            /\ panic_msg' = RemoveOutOfBounds
            /\ UNCHANGED <<pm_2_5_data, window, pushed>>
       ELSE /\ IF IsFull(pm_2_5_data)
               THEN /\ window' = advance(window)
                    /\ pm_2_5_data' = push(remove_first(pm_2_5_data),
                                           <<window'[2], result.val>>)
               ELSE /\ pm_2_5_data' = push(pm_2_5_data,
                                           <<fill_x(pm_2_5_data), result.val>>)
                    /\ UNCHANGED window
            /\ pushed' = Append(pushed, concentration)
            /\ pc' = "draw"
            /\ UNCHANGED panic_msg

\* Event::Tick => app.update(), the sensor read succeeding
Tick ==
    /\ pc = "handle"
    /\ event = "Tick"
    /\ \/ /\ \E c \in {Dec(Readings[sensor], 10)} : update(c)
          /\ sensor' = ((sensor - 1 + stride) % Len(Readings)) + 1
       \/ /\ \E c \in Unclassifiable : update(c)
          /\ UNCHANGED sensor
    /\ UNCHANGED <<event, stride, prev_measurement, prev_aqi, ticks, frame>>

\* Event::Tick => app.update(), get_measurement() returning Err: expect panics
TickSensorError ==
    /\ pc = "handle"
    /\ event = "Tick"
    /\ pc' = "panicked"
    /\ panic_msg' = SensorFailed
    /\ UNCHANGED <<pm_2_5_data, window, event, sensor_vars, calc_vars, ticks,
                   pushed, frame>>

\* the quit key handled like any other key
Quit_ignored ==
    /\ pc = "handle"
    /\ event = "q"
    /\ pc' = "draw"
    /\ UNCHANGED <<pm_2_5_data, window, event, panic_msg, sensor_vars,
                   calc_vars, ticks, pushed, frame>>

\* Event::Input(Key::Char('q')) => break
Quit ==
    /\ pc = "handle"
    /\ event = "q"
    /\ pc' = "done"
    /\ UNCHANGED <<pm_2_5_data, window, event, panic_msg, sensor_vars,
                   calc_vars, ticks, pushed, frame>>

\* a key press handled by sliding the window
OtherInput_slides ==
    /\ pc = "handle"
    /\ event = "other"
    /\ pc' = "draw"
    /\ window' = advance(window)
    /\ UNCHANGED <<pm_2_5_data, event, panic_msg, sensor_vars, calc_vars,
                   ticks, pushed, frame>>

\* Event::Input(_) => ()
OtherInput ==
    /\ pc = "handle"
    /\ event = "other"
    /\ pc' = "draw"
    /\ UNCHANGED <<pm_2_5_data, window, event, panic_msg, sensor_vars,
                   calc_vars, ticks, pushed, frame>>

Next == Draw \/ events_next \/ Tick \/ TickSensorError \/ Quit \/ OtherInput

Spec == Init /\ [][Next]_vars

\* The loop is one thread that is never suspended for good: once an input
\* event is received its match arm runs, and the loop draws again.  Which
\* event arrives next, and whether one arrives, is not constrained.
LiveSpec == Spec /\ WF_vars(Draw) /\ WF_vars(Quit) /\ WF_vars(OtherInput)

----------------------------------------------------------------------------
(* The calculator run by itself, as test_aqi does: one call, then a second *)
(* call whose result is compared with the first                            *)

\* How many f32 neighbours of each table bound are compared with each other
MaxPairUlps == 2

\* Concentrations whose indices are compared pairwise
PairInputs ==
    {UlpsAbove(b, k) : b \in TableBounds \ {FZero},
                       k \in (0 - MaxPairUlps)..MaxPairUlps}
    \cup {Dec(n, 10) : n \in {0, 77, 1000, 6000}}

CalcInit ==
    /\ App_new
    /\ pc = "calc"
    /\ event = "none"
    /\ panic_msg = ""
    /\ sensor = 1
    /\ stride = 1
    /\ measurement \in CalcInputs
    /\ lookup_values = None
    /\ last_aqi = NoResult
    /\ prev_measurement = FZero
    /\ prev_aqi = NoResult
    /\ ticks = 0
    /\ pushed = <<>>
    /\ frame = <<<<>>, <<0, 20>>>>

\* let result = aqi_from_pm2_5(concentration);
Compute ==
    /\ pc = "calc"
    /\ lookup_values' = find_lookup_values(measurement)
    /\ last_aqi' = aqi_from_pm2_5(measurement)
    /\ pc' = IF last_aqi'.kind = "Panic" THEN "panicked" ELSE "returned"
    /\ panic_msg' = IF last_aqi'.kind = "Panic"
                    THEN UnwrapNone ELSE ""
    /\ UNCHANGED <<pm_2_5_data, window, event, sensor_vars, measurement,
                   prev_measurement, prev_aqi, ticks, pushed, frame>>

\* let result = aqi_from_pm2_5(other); after a first call that returned
ComputeAgain ==
    /\ pc = "returned"
    /\ measurement \in PairInputs
    /\ \E c \in PairInputs :
          /\ prev_measurement' = measurement
          /\ prev_aqi' = last_aqi
          /\ measurement' = c
          /\ lookup_values' = find_lookup_values(c)
          /\ last_aqi' = aqi_from_pm2_5(c)
    /\ pc' = IF last_aqi'.kind = "Panic" THEN "panicked" ELSE "compared"
    /\ panic_msg' = IF last_aqi'.kind = "Panic"
                    THEN UnwrapNone ELSE ""
    /\ UNCHANGED <<pm_2_5_data, window, event, sensor_vars, ticks, pushed,
                   frame>>

CalcNext == Compute \/ ComputeAgain

CalcSpec == CalcInit /\ [][CalcNext]_vars

----------------------------------------------------------------------------
(* Properties *)

\* The compute step has been taken on `measurement`
Computed == pc \in {"returned", "compared", "panicked"}

\* No row covers c: it is below the first row or strictly between two rows
Uncovered(c) ==
    \/ FLess(c, PM2_5_LOOKUP_TABLE[1][1])
    \/ \E i \in 1..(Len(PM2_5_LOOKUP_TABLE) - 1) :
          /\ FLess(PM2_5_LOOKUP_TABLE[i][2], c)
          /\ FLess(c, PM2_5_LOOKUP_TABLE[i + 1][1])

\* The error value the calculator is asked to hand back to its caller
NoMatchingBreakpoint == [kind |-> "NoMatchingBreakpoint", val |-> FZero]

LastRow == PM2_5_LOOKUP_TABLE[Len(PM2_5_LOOKUP_TABLE)]

\* C1: after N >= 21 successful pushes the buffer holds exactly 21 points, the
\* bounds are [N-21, N-1], and the stored y-values are, oldest to newest, the
\* index of each of the last 21 pushed concentrations in push order.
C1_SlidingContents ==
    LET N == Len(pushed) IN
    N >= 21 =>
        /\ Len(pm_2_5_data) = 21
        /\ window = <<N - 21, N - 1>>
        /\ \A i \in 1..21 :
              /\ aqi_from_pm2_5(pushed[N - 21 + i]).kind = "Ok"
              /\ pm_2_5_data[i][2] = aqi_from_pm2_5(pushed[N - 21 + i]).val

C1_Witness ==
    /\ Len(pushed) >= 23
    /\ pm_2_5_data[1][2] # pm_2_5_data[21][2]

\* C2: while filling, after k <= 21 pushes the stored points have x = 0..k-1 in
\* order and the bounds are still [0, 20].
C2_Filling ==
    Len(pushed) <= 21 =>
        /\ Len(pm_2_5_data) = Len(pushed)
        /\ \A i \in 1..Len(pm_2_5_data) : pm_2_5_data[i][1] = i - 1
        /\ window = <<0, 20>>

C2_Witness ==
    /\ Len(pushed) = 21
    /\ pm_2_5_data[21][1] = 20

\* C3: a push made with 21 points stored evicts exactly the oldest point (the
\* one of lowest x), increments both bounds by one and appends a point whose x
\* is the new upper bound; the 22nd push leaves x = 1..21 and bounds [1, 21].
C3_Slide ==
    /\ [][(Len(pm_2_5_data) = 21 /\ Len(pushed') = Len(pushed) + 1) =>
            /\ Len(pm_2_5_data') = 21
            /\ \A i \in 1..20 : pm_2_5_data'[i] = pm_2_5_data[i + 1]
            /\ \A i \in 1..21 : pm_2_5_data[1][1] <= pm_2_5_data[i][1]
            /\ window' = <<window[1] + 1, window[2] + 1>>
            /\ pm_2_5_data'[21][1] = window'[2]]_vars
    /\ [](Len(pushed) = 22 =>
            /\ \A i \in 1..21 : pm_2_5_data[i][1] = i
            /\ Len(pm_2_5_data) = 21
            /\ window = <<1, 21>>)

C3_Witness ==
    /\ Len(pushed) = 22
    /\ pm_2_5_data[1][1] = 1

\* C4: for each of the 7 rows, the index of concentration_low is index_low and
\* the index of concentration_high is index_high, with that row selected.
C4_EndpointExact ==
    Computed =>
        \A i \in 1..Len(PM2_5_LOOKUP_TABLE) :
            /\ FEq(measurement, PM2_5_LOOKUP_TABLE[i][1]) =>
                  /\ lookup_values = Some(PM2_5_LOOKUP_TABLE[i])
                  /\ last_aqi = Ok(FromInt(PM2_5_LOOKUP_TABLE[i][3]))
            /\ FEq(measurement, PM2_5_LOOKUP_TABLE[i][2]) =>
                  /\ lookup_values = Some(PM2_5_LOOKUP_TABLE[i])
                  /\ last_aqi = Ok(FromInt(PM2_5_LOOKUP_TABLE[i][4]))

C4_Witness ==
    /\ pc = "returned"
    /\ measurement = Dec(5004, 10)
    /\ last_aqi = Ok(FromInt(500))

\* C5: a concentration no row covers (inside a gap, or below the first row)
\* makes compute hand back the NoMatchingBreakpoint error value to its caller;
\* no index is returned for it.
C5_NoMatchIsError ==
    (Computed /\ Uncovered(measurement)) =>
        /\ pc = "returned"
        /\ last_aqi = NoMatchingBreakpoint

\* C6: every concentration above 500.4 selects the last row and yields that
\* row's linear extrapolation, which is strictly above 500 (not capped).
C6_Extrapolation ==
    (Computed /\ FLess(Dec(5004, 10), measurement)) =>
        /\ lookup_values = Some(LastRow)
        /\ last_aqi.kind = "Ok"
        /\ last_aqi.val =
              FAdd(FMul(FDiv(FromInt(500 - 401),
                             FSub(Dec(5004, 10), Dec(3505, 10))),
                        FSub(measurement, Dec(3505, 10))),
                   FromInt(401))
        /\ FLess(FromInt(500), last_aqi.val)

C6_Witness ==
    /\ pc = "returned"
    /\ measurement = FromInt(600)
    /\ FLess(FromInt(500), last_aqi.val)

\* C7: a tick whose concentration no row covers does not crash the loop: no
\* point is appended for it, the bounds stay, and the loop goes on to its next
\* draw.
C7_UnclassifiableTickDropped ==
    [][(pc = "handle" /\ event = "Tick" /\ last_aqi' # last_aqi
        /\ Uncovered(measurement')) =>
            /\ pc' = "draw"
            /\ pm_2_5_data' = pm_2_5_data
            /\ window' = window]_vars

\* C8: the buffer never holds more than 21 points.
C8_Capacity == Len(pm_2_5_data) <= 21

C8_Witness ==
    /\ Len(pm_2_5_data) = 21
    /\ Len(pushed) > 21

\* C9: the window's upper bound minus its lower bound is always 20, and no
\* step changes one bound without changing the other by the same amount.
C9_ConstantWidth ==
    /\ [](window[2] - window[1] = 20)
    /\ [][window'[2] - window[2] = window'[1] - window[1]]_vars

C9_Witness ==
    /\ window[1] >= 3
    /\ window[2] = window[1] + 20

\* C10: every stored point's x lies within the current bounds, edges included.
C10_PointsInWindow ==
    \A i \in 1..Len(pm_2_5_data) :
        /\ window[1] <= pm_2_5_data[i][1]
        /\ pm_2_5_data[i][1] <= window[2]

C10_Witness ==
    /\ Len(pm_2_5_data) = 21
    /\ window[1] >= 2
    /\ pm_2_5_data[1][1] = window[1]
    /\ pm_2_5_data[21][1] = window[2]

----------------------------------------------------------------------------
(* Properties of the event loop *)

\* Position in Readings of the reading the k-th pushed tick was given
ReadingOfPush(k) ==
    LET n == Len(Readings)
        back == Len(pushed) - k + 1
    IN ((((sensor - 1 - stride * back) % n) + n) % n) + 1

\* C11: one event is handled at a time and a Tick yields at most one push:
\* only the handling of a Tick changes the buffer, it appends one point after
\* the others, which keep their order, and the stored y-values are those of
\* the ticks' readings in the order the ticks came.
C11_TickOrder ==
    /\ [][/\ Len(pushed') <= Len(pushed) + 1
          /\ Len(pm_2_5_data') <= Len(pm_2_5_data) + 1
          /\ (pushed' # pushed \/ pm_2_5_data' # pm_2_5_data) =>
                /\ pc = "handle"
                /\ event = "Tick"
                /\ Len(pushed') = Len(pushed) + 1
                /\ pm_2_5_data'[Len(pm_2_5_data')][2] = last_aqi'.val
                /\ \A i \in 1..(Len(pm_2_5_data') - 1) :
                      pm_2_5_data'[i] =
                         pm_2_5_data[i + Len(pm_2_5_data) + 1 - Len(pm_2_5_data')]]_vars
    /\ [](\A i \in 1..Len(pm_2_5_data) :
             pm_2_5_data[i][2] =
                aqi_from_pm2_5(Dec(Readings[ReadingOfPush(
                    Len(pushed) - Len(pm_2_5_data) + i)], 10)).val)

C11_Witness ==
    /\ Len(pushed) >= 23
    /\ pc = "draw"
    /\ event = "Tick"
    /\ pm_2_5_data[20][2] # pm_2_5_data[21][2]

\* C12: the loop ends when the quit key is received and on no other event;
\* nothing changes after it has ended; a received quit key always ends it.
C12_QuitEndsLoop ==
    /\ [][pc = "done" => UNCHANGED vars]_vars
    /\ [][(pc' = "done" /\ pc # "done") =>
             /\ pc = "handle"
             /\ event = "q"
             /\ UNCHANGED <<pm_2_5_data, window, pushed, ticks>>]_vars
    /\ ((pc = "handle" /\ event = "q") ~> (pc = "done"))

C12_Witness ==
    /\ pc = "done"
    /\ event = "q"
    /\ Len(pushed) >= 1

\* C13: handling an input event other than the quit key leaves the buffer and
\* the bounds unchanged and pushes nothing.
C13_OtherInputIgnored ==
    [][(pc = "handle" /\ event = "other") =>
          /\ pm_2_5_data' = pm_2_5_data
          /\ window' = window
          /\ pushed' = pushed
          /\ pc' = "draw"]_vars

C13_Witness ==
    /\ pc = "draw"
    /\ event = "other"
    /\ Len(pushed) >= 22

\* C14: while filling, the k-th tick stores the point (k-1, index of its
\* concentration); concentrations 0.0, 12.0, 35.5, 55.5 give y = 0, 50, 101,
\* 151 at x = 0, 1, 2, 3 with bounds [0, 20].
C14_EndToEndFilling ==
    /\ Len(pushed) <= 21 =>
          /\ Len(pm_2_5_data) = Len(pushed)
          /\ \A k \in 1..Len(pushed) :
                pm_2_5_data[k] = <<k - 1, aqi_from_pm2_5(pushed[k]).val>>
    /\ pushed = <<Dec(0, 10), Dec(120, 10), Dec(355, 10), Dec(555, 10)>> =>
          /\ pm_2_5_data = << <<0, FromInt(0)>>, <<1, FromInt(50)>>,
                              <<2, FromInt(101)>>, <<3, FromInt(151)>> >>
          /\ window = <<0, 20>>

C14_Witness ==
    /\ pushed = <<Dec(0, 10), Dec(120, 10), Dec(355, 10), Dec(555, 10)>>
    /\ Len(pm_2_5_data) = 4

\* C15: the push part of update never fails: once the index is computed the
\* tick ends with the point pushed, no panic comes from remove(0), and a
\* point is evicted only from a buffer of 21 points.
C15_PushNeverFails ==
    /\ [](panic_msg # RemoveOutOfBounds)
    /\ [][(pc = "handle" /\ event = "Tick" /\ pc' # pc
           /\ panic_msg' # SensorFailed /\ last_aqi'.kind = "Ok") =>
             /\ pc' = "draw"
             /\ Len(pushed') = Len(pushed) + 1]_vars
    /\ [][(Len(pm_2_5_data') = Len(pm_2_5_data)
           /\ pm_2_5_data' # pm_2_5_data) => Len(pm_2_5_data) = 21]_vars

C15_Witness ==
    /\ Len(pushed) >= 22
    /\ pc = "draw"
    /\ event = "Tick"
    /\ panic_msg = ""

\* Row i covers c
InRow(c, i) ==
    /\ FLe(PM2_5_LOOKUP_TABLE[i][1], c)
    /\ FLe(c, PM2_5_LOOKUP_TABLE[i][2])

\* C16: the rows are in ascending order and pairwise disjoint, so at most one
\* row covers a concentration, and the scan returns that row when there is one.
C16_UniqueRow ==
    /\ \A i \in 1..(Len(PM2_5_LOOKUP_TABLE) - 1) :
          /\ FLess(PM2_5_LOOKUP_TABLE[i][1], PM2_5_LOOKUP_TABLE[i + 1][1])
          /\ FLess(PM2_5_LOOKUP_TABLE[i][2], PM2_5_LOOKUP_TABLE[i + 1][1])
    /\ Computed =>
          LET rows == {i \in 1..Len(PM2_5_LOOKUP_TABLE) : InRow(measurement, i)}
          IN /\ Cardinality(rows) <= 1
             /\ \A i \in rows : lookup_values = Some(PM2_5_LOOKUP_TABLE[i])

C16_Witness ==
    /\ pc = "returned"
    /\ measurement = Dec(120, 10)
    /\ lookup_values = Some(PM2_5_LOOKUP_TABLE[1])

\* C17: a frame shows the buffer and the bounds as the last completed push
\* left them: while the loop waits for or handles an event the frame is the
\* current state, a frame never shows fewer than 21 points once the window
\* has moved, and with 21 points its upper bound is the newest point's x.
C17_FrameNotTorn ==
    /\ pc \in {"event", "handle"} => frame = <<pm_2_5_data, window>>
    /\ frame[2] # <<0, 20>> => Len(frame[1]) = 21
    /\ Len(frame[1]) <= 21
    /\ Len(frame[1]) = 21 =>
          /\ frame[1][21][1] = frame[2][2]
          /\ frame[1][1][1] = frame[2][1]

C17_Witness ==
    /\ pc = "event"
    /\ Len(frame[1]) = 21
    /\ frame[2][1] >= 2

\* C18: the stored x-coordinates are consecutive integers, increasing from
\* oldest to newest; with 21 points stored the oldest x is the lower bound
\* and the newest x the upper bound.
C18_ConsecutiveX ==
    /\ \A i \in 1..(Len(pm_2_5_data) - 1) :
          pm_2_5_data[i + 1][1] = pm_2_5_data[i][1] + 1
    /\ Len(pm_2_5_data) = 21 =>
          /\ pm_2_5_data[1][1] = window[1]
          /\ pm_2_5_data[21][1] = window[2]

C18_Witness ==
    /\ Len(pm_2_5_data) = 21
    /\ window[1] >= 2
    /\ pm_2_5_data[2][1] = window[1] + 1

\* C19: a tick that aborts inside update, on a failed sensor read or on a
\* concentration no row covers, leaves the buffer and the bounds as they
\* were before the tick.
C19_AbortBeforeMutation ==
    [][(pc' = "panicked" /\ pc # "panicked") =>
          /\ pc = "handle"
          /\ event = "Tick"
          /\ panic_msg' \in {UnwrapNone, SensorFailed}
          /\ pm_2_5_data' = pm_2_5_data
          /\ window' = window
          /\ pushed' = pushed]_vars

C19_Witness ==
    /\ pc = "panicked"
    /\ panic_msg = UnwrapNone
    /\ Len(pm_2_5_data) = 21
    /\ window[1] >= 1

\* Both calls returned and the first concentration is below the second
ComparedAscending ==
    /\ pc = "compared"
    /\ FLess(prev_measurement, measurement)

\* Every concentration inside a row maps into that row's index range
WithinRowRange ==
    Computed =>
        \A i \in 1..Len(PM2_5_LOOKUP_TABLE) :
            InRow(measurement, i) =>
                /\ last_aqi.kind = "Ok"
                /\ FLe(FromInt(PM2_5_LOOKUP_TABLE[i][3]), last_aqi.val)
                /\ FLe(last_aqi.val, FromInt(PM2_5_LOOKUP_TABLE[i][4]))

\* C20 as stated: for classifiable a < b the index of a is strictly below the
\* index of b, and a concentration inside a row maps into the row's range.
C20_StrictlyIncreasing ==
    /\ ComparedAscending => FLess(prev_aqi.val, last_aqi.val)
    /\ WithinRowRange

\* C20, amended: for classifiable a < b the index of a is at most the index
\* of b, and strictly below it when a and b lie in different rows or when a
\* is inside the table and b above 500.4; a concentration inside a row maps
\* into the row's range.
C20_NonDecreasing ==
    /\ ComparedAscending =>
          /\ FLe(prev_aqi.val, last_aqi.val)
          /\ (\E i, j \in 1..Len(PM2_5_LOOKUP_TABLE) :
                 i # j /\ InRow(prev_measurement, i) /\ InRow(measurement, j))
                => FLess(prev_aqi.val, last_aqi.val)
          /\ (FLe(prev_measurement, Dec(5004, 10))
              /\ FLess(Dec(5004, 10), measurement))
                => FLess(prev_aqi.val, last_aqi.val)
    /\ WithinRowRange

C20_Witness ==
    /\ ComparedAscending
    /\ FLess(Dec(5004, 10), prev_measurement)
    /\ prev_aqi.val = last_aqi.val

====
